---- MODULE Spec2Model ----
(***************************************************************************)
(* OSRS Trade Tracker: the CSV import loop of routes/index.js and the      *)
(* trading_records store and aggregations of database/db.js.               *)
(*                                                                         *)
(* Text is a tuple of one-character strings (<<>> is the empty string), so *)
(* that parseInt can be computed over it.  JavaScript's undefined and SQL's *)
(* NULL are the one-element tuples below, which no text equals.            *)
(*                                                                         *)
(* Spec is the import of uploaded files, one upload after the other;       *)
(* SpecNumbers is the same of files with cells that are not numbers;       *)
(* SpecStore adds calls of insertRecord between uploads; SpecAgg,          *)
(* SpecTimeline and SpecTop apply the aggregations to stores that imports  *)
(* have filled; SpecJoin runs the five callbacks of getDashboardStats one   *)
(* by one and SpecRace the loops of two uploads step by step.  Times are   *)
(* ticks of the clock, TicksPerDay to a calendar day.                      *)
(***************************************************************************)
EXTENDS Integers, Sequences, FiniteSets, TLC

VARIABLES
    store,      \* table trading_records, in rowid order
    seq,        \* sqlite_sequence of the AUTOINCREMENT id
    clock,      \* CURRENT_TIMESTAMP, in ticks
    pc,         \* position of processCsvFile's 'end' handler
    results,    \* its array of parsed CSV rows
    idx,        \* index of the row the loop is at (1-based)
    newRecords, \* counter newRecords
    duplicates, \* counter duplicates
    errors,     \* counter errors
    startLen,   \* number of stored rows when the batch started
    hist,       \* per row of the batch, what the loop did with it
    reply,      \* result of the store operation of the last step
    dash,       \* the call of getDashboardStats whose callbacks are arriving
    rival       \* the 'end' handler of a second upload that runs meanwhile

vars == <<store, seq, clock, pc, results, idx, newRecords, duplicates,
          errors, startLen, hist, reply, dash, rival>>

batchVars == <<pc, results, idx, newRecords, duplicates, errors, startLen, hist>>

otherVars == <<dash, rival>>

----------------------------------------------------------------------------
(* Bounds *)

MaxBatch == 3
MaxSeq == 3
MaxClock == 2
TicksPerDay == 2
MaxAggRows == 3
MaxTimelineRows == 2
MaxTopRows == 11
MaxJoinRows == 1
MaxRaceRows == 3

----------------------------------------------------------------------------
(* JavaScript values *)

undefined == <<"undefined">>
NULL == <<"NULL">>

Truthy(v) == v # undefined /\ v # <<>>

\* a || b on cells
Or(a, b) == IF Truthy(a) THEN a ELSE b

Digit == [c \in {"0", "1", "2", "3", "4", "5", "6", "7", "8", "9"} |->
            CASE c = "0" -> 0 [] c = "1" -> 1 [] c = "2" -> 2 [] c = "3" -> 3
              [] c = "4" -> 4 [] c = "5" -> 5 [] c = "6" -> 6 [] c = "7" -> 7
              [] c = "8" -> 8 [] c = "9" -> 9]

IsDigit(c) == c \in DOMAIN Digit

RECURSIVE SkipSpace(_)
SkipSpace(s) == IF s # <<>> /\ Head(s) = " " THEN SkipSpace(Tail(s)) ELSE s

\* the longest run of decimal digits at the front of s, as <<count, value>>
RECURSIVE DigitRun(_, _, _)
DigitRun(s, n, acc) ==
    IF s # <<>> /\ IsDigit(Head(s))
    THEN DigitRun(Tail(s), n + 1, acc * 10 + Digit[Head(s)])
    ELSE <<n, acc>>

\* parseInt(v) without a radix, on decimal text: [nan, val]
parseInt(v) ==
    LET s == SkipSpace(v)
        neg == s # <<>> /\ Head(s) = "-"
        body == IF s # <<>> /\ Head(s) \in {"-", "+"} THEN Tail(s) ELSE s
        run == DigitRun(body, 0, 0)
    IN  IF run[1] = 0 THEN [nan |-> TRUE, val |-> 0]
        ELSE [nan |-> FALSE, val |-> IF neg THEN 0 - run[2] ELSE run[2]]

\* a parse that turns what is not a number into -1
OrMinusOne(p) == IF p.nan THEN 0 - 1 ELSE p.val

\* parseInt(...) || 0
OrZero(p) == IF p.nan \/ p.val = 0 THEN 0 ELSE p.val

\* n || 0 on a number
NumOrZero(n) == IF n = 0 THEN 0 ELSE n

----------------------------------------------------------------------------
(* CSV rows *)

\* A row is a function from the column names of its file to the text of its
\* cells.

\* row[name], undefined for a column the row does not have
Cell(row, name) == IF name \in DOMAIN row THEN row[name] ELSE undefined

\* The record literal of processCsvFile
Normalize(row) ==
    [firstBuyTime |-> Or(Cell(row, "First buy time"), Cell(row, "first_buy_time")),
     lastSellTime |-> Or(Cell(row, "Last sell time"), Cell(row, "last_sell_time")),
     account      |-> Or(Cell(row, "Account"), Cell(row, "account")),
     item         |-> Or(Cell(row, "Item"), Cell(row, "item")),
     status       |-> Or(Cell(row, "Status"), Cell(row, "status")),
     bought       |-> OrZero(parseInt(Or(Cell(row, "Bought"), Cell(row, "bought")))),
     sold         |-> OrZero(parseInt(Or(Cell(row, "Sold"), Cell(row, "sold")))),
     avgBuyPrice  |-> OrZero(parseInt(Or(Cell(row, "Avg. buy price"), Cell(row, "avg_buy_price")))),
     avgSellPrice |-> OrZero(parseInt(Or(Cell(row, "Avg. sell price"), Cell(row, "avg_sell_price")))),
     tax          |-> OrZero(parseInt(Or(Cell(row, "Tax"), Cell(row, "tax")))),
     profit       |-> OrZero(parseInt(Or(Cell(row, "Profit"), Cell(row, "profit")))),
     profitEa     |-> OrZero(parseInt(Or(Cell(row, "Profit ea."), Cell(row, "profit_ea"))))]

\* the numeric fields: the two spellings of the column in a file, the field of
\* the record and the column of the table
NumericFields ==
    {[label |-> "Bought", snake |-> "bought", field |-> "bought", column |-> "bought"],
     [label |-> "Sold", snake |-> "sold", field |-> "sold", column |-> "sold"],
     [label |-> "Avg. buy price", snake |-> "avg_buy_price", field |-> "avgBuyPrice",
      column |-> "avg_buy_price"],
     [label |-> "Avg. sell price", snake |-> "avg_sell_price", field |-> "avgSellPrice",
      column |-> "avg_sell_price"],
     [label |-> "Tax", snake |-> "tax", field |-> "tax", column |-> "tax"],
     [label |-> "Profit", snake |-> "profit", field |-> "profit", column |-> "profit"],
     [label |-> "Profit ea.", snake |-> "profit_ea", field |-> "profitEa",
      column |-> "profit_ea"]}

\* the text that parseInt is given for field f of a row
NumericCell(row, f) == Or(Cell(row, f.label), Cell(row, f.snake))

\* the numeric fields of a row that are missing (no column, or an empty cell)
Missing(row) == {f \in NumericFields : NumericCell(row, f) = undefined}

\* the numeric fields of a row that are present and that parseInt cannot parse
Unparsable(row) ==
    {f \in NumericFields : NumericCell(row, f) # undefined
                            /\ parseInt(NumericCell(row, f)).nan}

----------------------------------------------------------------------------
(* The store: table trading_records *)

\* a JavaScript value bound to a ? of a statement: undefined is left unbound,
\* which SQLite reads as NULL
Bind(v) == IF v = undefined THEN NULL ELSE v

\* a = b in a WHERE clause or a UNIQUE index: never true of a NULL
SqlEq(a, b) == a # NULL /\ b # NULL /\ a = b

\* recordExists: SELECT COUNT(*) ... WHERE first_buy_time = ? AND
\* last_sell_time = ? AND item = ?, then count > 0
recordExists(tbl, firstBuyTime, lastSellTime, item) ==
    Cardinality({k \in DOMAIN tbl :
        /\ SqlEq(tbl[k].first_buy_time, Bind(firstBuyTime))
        /\ SqlEq(tbl[k].last_sell_time, Bind(lastSellTime))
        /\ SqlEq(tbl[k].item, Bind(item))}) > 0

\* the VALUES row of insertRecord's statement
ParamsRow(rec, id, now) ==
    [id             |-> id,
     first_buy_time |-> Bind(rec.firstBuyTime),
     last_sell_time |-> Bind(rec.lastSellTime),
     account        |-> Bind(rec.account),
     item           |-> Bind(rec.item),
     status         |-> Bind(rec.status),
     bought         |-> NumOrZero(rec.bought),
     sold           |-> NumOrZero(rec.sold),
     avg_buy_price  |-> NumOrZero(rec.avgBuyPrice),
     avg_sell_price |-> NumOrZero(rec.avgSellPrice),
     tax            |-> NumOrZero(rec.tax),
     profit         |-> NumOrZero(rec.profit),
     profit_ea      |-> NumOrZero(rec.profitEa),
     import_date    |-> now]

\* NOT NULL of account, item and status
NotNullOk(r) == r.account # NULL /\ r.item # NULL /\ r.status # NULL

\* UNIQUE(first_buy_time, last_sell_time, item): a row conflicts with a stored
\* row whose three columns are equal to its own, NULLs being distinct
UniqueOk(tbl, r) ==
    \A k \in DOMAIN tbl :
        ~ ( /\ SqlEq(tbl[k].first_buy_time, r.first_buy_time)
            /\ SqlEq(tbl[k].last_sell_time, r.last_sell_time)
            /\ SqlEq(tbl[k].item, r.item) )

\* last_insert_rowid() of the connection
lastID(tbl) == IF tbl = <<>> THEN 0 ELSE tbl[Len(tbl)].id

\* an insert into a table without the UNIQUE index
insertRecordNoUnique(tbl, sq, rec, now) ==
    LET r == ParamsRow(rec, sq + 1, now)
    IN  IF NotNullOk(r)
        THEN [tbl |-> Append(tbl, r), seq |-> sq + 1, id |-> sq + 1, changes |-> 1]
        ELSE [tbl |-> tbl, seq |-> sq + 1, id |-> lastID(tbl), changes |-> 0]

\* insertRecord: INSERT OR IGNORE.  Every attempt takes the next AUTOINCREMENT
\* id; a row that breaks NOT NULL or UNIQUE is skipped without an error.
\* Gives the table, the sequence and the resolved {id, changes}.
insertRecord(tbl, sq, rec, now) ==
    LET r == ParamsRow(rec, sq + 1, now)
    IN  IF NotNullOk(r) /\ UniqueOk(tbl, r)
        THEN [tbl |-> Append(tbl, r), seq |-> sq + 1, id |-> sq + 1, changes |-> 1]
        ELSE [tbl |-> tbl, seq |-> sq + 1, id |-> lastID(tbl), changes |-> 0]

----------------------------------------------------------------------------
(* Aggregations of database/db.js *)

FINISHED == <<"F", "I", "N", "I", "S", "H", "E", "D">>
SELLING == <<"S", "E", "L", "L", "I", "N", "G">>
NoCompletedTrades == <<"N", "o", " ", "c", "o", "m", "p", "l", "e", "t", "e", "d",
                       " ", "t", "r", "a", "d", "e", "s">>

TopLimit == 10
startingNetWorth == 198000000
UnitInvestment == 100000
RandomItems == 10

\* the rows of tbl that satisfy Keep, in rowid order
RECURSIVE SelectWhere(_, _)
SelectWhere(tbl, keep) ==
    IF tbl = <<>> THEN <<>>
    ELSE IF Head(tbl) \in keep
         THEN <<Head(tbl)>> \o SelectWhere(Tail(tbl), keep)
         ELSE SelectWhere(Tail(tbl), keep)

Range(s) == {s[k] : k \in DOMAIN s}

\* WHERE status = 'FINISHED': the default BINARY collation compares text
\* character for character
WhereStatus(tbl, text) == SelectWhere(tbl, {r \in Range(tbl) : SqlEq(r.status, text)})

\* SUM(profit) over rows that exist
RECURSIVE SumProfit(_)
SumProfit(rows) == IF rows = <<>> THEN 0 ELSE Head(rows).profit + SumProfit(Tail(rows))

\* ORDER BY key DESC on a sequence of [key, val]: rows of equal key keep their
\* order (SQLite leaves it open; the scan order is taken)
RECURSIVE InsertDesc(_, _)
InsertDesc(sorted, x) ==
    IF sorted = <<>> THEN <<x>>
    ELSE IF Head(sorted).key >= x.key
         THEN <<Head(sorted)>> \o InsertDesc(Tail(sorted), x)
         ELSE <<x>> \o sorted

RECURSIVE OrderByDesc(_)
OrderByDesc(s) ==
    IF s = <<>> THEN <<>>
    ELSE InsertDesc(OrderByDesc(SubSeq(s, 1, Len(s) - 1)), s[Len(s)])

Vals(s) == [k \in DOMAIN s |-> s[k].val]

\* LIMIT n
Limit(s, n) == IF Len(s) <= n THEN s ELSE SubSeq(s, 1, n)

\* the ten oldest records, not ordered by profit
topFlipsUnordered(tbl) == Limit(tbl, TopLimit)

\* SELECT * FROM trading_records ORDER BY profit DESC LIMIT 10
topFlipsQuery(tbl) ==
    Limit(Vals(OrderByDesc([k \in DOMAIN tbl |-> [key |-> tbl[k].profit, val |-> tbl[k]]])),
          TopLimit)

\* the distinct values of f over rows, in order of first occurrence
RECURSIVE Distinct(_, _)
Distinct(s, seen) ==
    IF s = <<>> THEN <<>>
    ELSE IF Head(s) \in seen THEN Distinct(Tail(s), seen)
         ELSE <<Head(s)>> \o Distinct(Tail(s), seen \cup {Head(s)})

\* SELECT item, SUM(profit) as totalProfit ... WHERE status = 'FINISHED'
\* GROUP BY item ORDER BY totalProfit DESC LIMIT 10
topItemsQuery(tbl) ==
    LET fin == WhereStatus(tbl, FINISHED)
        items == Distinct([k \in DOMAIN fin |-> fin[k].item], {})
        group(i) == [item |-> i,
                     totalProfit |-> SumProfit(SelectWhere(fin, {r \in Range(fin) : r.item = i}))]
    IN  Limit(Vals(OrderByDesc([k \in DOMAIN items |->
                [key |-> group(items[k]).totalProfit, val |-> group(items[k])]])),
              TopLimit)

\* getDashboardStats, all five queries answered.  For the two counts and the
\* sum, stats[key] = row.total || row.count || 0: the sum is NULL over no rows.
getDashboardStats(tbl) ==
    [totalProfit    |-> NumOrZero(SumProfit(WhereStatus(tbl, FINISHED))),
     completedFlips |-> NumOrZero(Len(WhereStatus(tbl, FINISHED))),
     totalRecords   |-> NumOrZero(Len(tbl)),
     topFlips       |-> topFlipsQuery(tbl),
     topItems       |-> topItemsQuery(tbl)]

\* Object.keys(queries): the five queries that getDashboardStats sends
Queries == {"totalProfit", "completedFlips", "totalRecords", "topFlips", "topItems"}

totalQueries == Cardinality(Queries)

\* stats[key] as the callback of query `key` sets it
QueryResult(key, tbl) == getDashboardStats(tbl)[key]

\* no call of getDashboardStats is under way
NoCall ==
    [pending |-> {}, failed |-> {}, stats |-> <<>>, completedQueries |-> 0,
     promise |-> "none", value |-> <<>>, resolveCalls |-> 0, rejectCalls |-> 0]

\* new Promise(...) and the for loop over the queries: all five are sent, and
\* stats and completedQueries start empty
NewCall ==
    [NoCall EXCEPT !.pending = Queries, !.promise = "pending"]

\* resolve(value) and reject(err): the first of them settles the promise, a
\* later one changes nothing
resolve(d, value) ==
    [d EXCEPT !.resolveCalls = @ + 1,
              !.promise = IF @ = "pending" THEN "resolved" ELSE @,
              !.value = IF d.promise = "pending" THEN value ELSE @]

reject(d) ==
    [d EXCEPT !.rejectCalls = @ + 1,
              !.promise = IF @ = "pending" THEN "rejected" ELSE @]

\* a callback that counts a failed query as completed
CallbackCountsFailures(d, key, err, tbl) ==
    LET arrived == [d EXCEPT !.pending = @ \ {key},
                             !.failed = IF err THEN @ \cup {key} ELSE @,
                             !.stats = IF err THEN @ ELSE (key :> QueryResult(key, tbl)) @@ @,
                             !.completedQueries = @ + 1]
        settled == IF err THEN reject(arrived) ELSE arrived
    IN  IF settled.completedQueries = totalQueries
        THEN resolve(settled, settled.stats)
        ELSE settled

\* the callback of query `key`: if (err) { reject(err); return; }
\* stats[key] = ...; completedQueries++;
\* if (completedQueries === totalQueries) resolve(stats)
Callback(d, key, err, tbl) ==
    LET arrived == [d EXCEPT !.pending = @ \ {key}]
    IN  IF err
        THEN reject([arrived EXCEPT !.failed = @ \cup {key}])
        ELSE LET counted == [arrived EXCEPT
                                !.stats = (key :> QueryResult(key, tbl)) @@ @,
                                !.completedQueries = @ + 1]
             IN  IF counted.completedQueries = totalQueries
                 THEN resolve(counted, counted.stats)
                 ELSE counted

\* DATE(import_date)
DATE(t) == t \div TicksPerDay

OnDate(tbl, d) == SelectWhere(tbl, {r \in Range(tbl) : DATE(r.import_date) = d})

\* the query of getDailyReturns: one row per DATE(import_date), ORDER BY date DESC
dailyQuery(tbl) ==
    LET dates == Distinct([k \in DOMAIN tbl |-> DATE(tbl[k].import_date)], {})
        bucket(d) ==
            [date           |-> d,
             totalTrades    |-> Len(OnDate(tbl, d)),
             dailyProfit    |-> SumProfit(WhereStatus(OnDate(tbl, d), FINISHED)),
             finishedTrades |-> Len(WhereStatus(OnDate(tbl, d), FINISHED)),
             activeTrades   |-> Len(WhereStatus(OnDate(tbl, d), SELLING))]
    IN  Vals(OrderByDesc([k \in DOMAIN dates |-> [key |-> dates[k], val |-> bucket(dates[k])]]))

\* addTopItemsToDaily: SELECT item, profit ... WHERE DATE(import_date) = ? AND
\* status = 'FINISHED' ORDER BY profit DESC LIMIT 1
addTopItemsToDaily(tbl, dailyData) ==
    [k \in DOMAIN dailyData |->
        LET day == dailyData[k]
            fin == WhereStatus(OnDate(tbl, day.date), FINISHED)
            top == Limit(Vals(OrderByDesc([j \in DOMAIN fin |->
                        [key |-> fin[j].profit, val |-> fin[j]]])), 1)
        IN  [date           |-> day.date,
             totalTrades    |-> day.totalTrades,
             dailyProfit    |-> day.dailyProfit,
             finishedTrades |-> day.finishedTrades,
             activeTrades   |-> day.activeTrades,
             topItem        |-> IF top # <<>> THEN top[1].item ELSE NoCompletedTrades,
             topItemProfit  |-> IF top # <<>> THEN top[1].profit ELSE 0]]

getDailyReturns(tbl) == addTopItemsToDaily(tbl, dailyQuery(tbl))

----------------------------------------------------------------------------
(* Timeline *)

Abs(n) == IF n < 0 THEN 0 - n ELSE n

RECURSIVE Gcd(_, _)
Gcd(a, b) == IF b = 0 THEN a ELSE Gcd(b, a % b)

\* the number (n * 100) / d, d # 0, as the fraction <<numerator, denominator>>
\* in lowest terms with a positive denominator
Percent(n, d) ==
    LET g1 == Gcd(Abs(n), Abs(d))
        n1 == n \div g1
        d1 == Abs(d) \div g1
        g2 == Gcd(100, d1)
        sgn == IF d < 0 THEN 0 - 1 ELSE 1
    IN  <<sgn * n1 * (100 \div g2), d1 \div g2>>

Zero == <<0, 1>>

\* dailyData.sort((a, b) => new Date(a.date) - new Date(b.date))
SortDateAsc(dailyData) ==
    Vals(OrderByDesc([k \in DOMAIN dailyData |->
            [key |-> 0 - dailyData[k].date, val |-> dailyData[k]]]))

\* dailyData.sort((a, b) => new Date(b.date) - new Date(a.date))
SortDateDesc(dailyData) ==
    Vals(OrderByDesc([k \in DOMAIN dailyData |->
            [key |-> dailyData[k].date, val |-> dailyData[k]]]))

\* day.roi
Roi(day) ==
    LET totalInvested == day.finishedTrades * UnitInvestment
    IN  IF totalInvested > 0 THEN Percent(day.dailyProfit, totalInvested) ELSE Zero

\* growth that divides by any previous net worth but 0
GrowthUnlessZero(day, previousDayNetWorth) ==
    IF previousDayNetWorth # 0 THEN Percent(day.dailyProfit, previousDayNetWorth) ELSE Zero

\* day.growth
Growth(day, previousDayNetWorth) ==
    IF previousDayNetWorth > 0 THEN Percent(day.dailyProfit, previousDayNetWorth) ELSE Zero

\* day.items = Math.floor(Math.random() * 10) + 1: random[date] is the draw
Items(day, random) == random[day.date]

\* the body of dailyData.forEach, from the day at the head of days on
RECURSIVE ForEachDay(_, _, _, _)
ForEachDay(days, cumulativeNetWorth, previousDayNetWorth, random) ==
    IF days = <<>> THEN <<>>
    ELSE LET day == Head(days)
             cumulative == cumulativeNetWorth + day.dailyProfit
             point == [date           |-> day.date,
                       totalTrades    |-> day.totalTrades,
                       dailyProfit    |-> day.dailyProfit,
                       finishedTrades |-> day.finishedTrades,
                       activeTrades   |-> day.activeTrades,
                       topItem        |-> day.topItem,
                       topItemProfit  |-> day.topItemProfit,
                       items          |-> Items(day, random),
                       flips          |-> day.totalTrades,
                       netWorth       |-> cumulative,
                       roi            |-> Roi(day),
                       growth         |-> Growth(day, previousDayNetWorth)]
         IN  <<point>> \o ForEachDay(Tail(days), cumulative, cumulative, random)

\* a timeline that is left in ascending order
getTimelineDataAscending(dailyData, random) ==
    ForEachDay(SortDateAsc(dailyData), startingNetWorth, startingNetWorth, random)

\* getTimelineData after its await: dailyData is what getDailyReturns resolved
\* with, random the draws of Math.random per date
getTimelineData(dailyData, random) ==
    SortDateDesc(ForEachDay(SortDateAsc(dailyData),
                            startingNetWorth, startingNetWorth, random))

Dates(tbl) == {DATE(tbl[k].import_date) : k \in DOMAIN tbl}

----------------------------------------------------------------------------
(* The CSV files that are uploaded *)

T1 == <<"T", "1">>
T2 == <<"T", "2">>
Main == <<"m", "a", "i", "n">>
RuneScimitar == <<"R", "u", "n", "e", " ", "s", "c", "i", "m", "i", "t", "a", "r">>
Lobster == <<"L", "o", "b", "s", "t", "e", "r">>

\* a finished flip of the exporter's CSV
RowFinished ==
    ("First buy time" :> T1) @@ ("Last sell time" :> T2) @@ ("Account" :> Main) @@
    ("Item" :> RuneScimitar) @@ ("Status" :> FINISHED) @@ ("Bought" :> <<"2">>) @@
    ("Sold" :> <<"2">>) @@ ("Avg. buy price" :> <<"1", "0">>) @@
    ("Avg. sell price" :> <<"1", "3">>) @@ ("Tax" :> <<"1">>) @@
    ("Profit" :> <<"5">>) @@ ("Profit ea." :> <<"2">>)

\* the same flip exported again with other figures
RowFinishedAgain ==
    ("Profit" :> <<"9">>) @@ ("Profit ea." :> <<"4">>) @@ ("Tax" :> <<"0">>) @@ RowFinished

\* a flip that is still selling: its sell time cell is empty
RowSelling ==
    ("Last sell time" :> <<>>) @@ ("Status" :> SELLING) @@ ("Sold" :> <<"0">>) @@
    ("Item" :> Lobster) @@ ("Profit" :> <<"0">>) @@ ("Profit ea." :> <<"0">>) @@ RowFinished

\* a row whose item cell is empty
RowNoItem ==
    ("First buy time" :> T2) @@ ("Item" :> <<>>) @@ RowFinished

\* a finished flip whose profit cell is not a number, whose tax cell is empty
\* and whose file has no column "Profit ea."
RowUnparsable ==
    ("First buy time" :> T2) @@ ("Last sell time" :> T2) @@ ("Account" :> Main) @@
    ("Item" :> Lobster) @@ ("Status" :> FINISHED) @@ ("Bought" :> <<"2">>) @@
    ("Sold" :> <<"2">>) @@ ("Avg. buy price" :> <<"1", "0">>) @@
    ("Avg. sell price" :> <<"1", "3">>) @@ ("Tax" :> <<>>) @@
    ("Profit" :> <<"a", "b", "c">>)

\* a line that was cut after its third cell
RowTruncated ==
    ("First buy time" :> T1) @@ ("Last sell time" :> T1) @@ ("Account" :> Main)

CsvRows == {RowFinished, RowFinishedAgain, RowSelling, RowNoItem}

\* rows with and without cells that parseInt cannot parse
NumberRows == {RowFinished, RowUnparsable, RowTruncated}

RECURSIVE SeqsUpTo(_, _)
SeqsUpTo(S, n) ==
    IF n = 0 THEN {<<>>}
    ELSE LET shorter == SeqsUpTo(S, n - 1)
         IN  shorter \cup {Append(q, x) : q \in {t \in shorter : Len(t) = n - 1}, x \in S}

CsvFiles == SeqsUpTo(CsvRows, MaxBatch) \ {<<>>}

NumberFiles == SeqsUpTo(NumberRows, MaxBatch) \ {<<>>}

----------------------------------------------------------------------------
(* processCsvFile: the 'end' handler, one step per awaited store call *)

NoReply == [op |-> "none"]

Rejected(op) == [op |-> op, state |-> "rejected"]

\* what insertRecord resolved with, for which record and on which table
Inserted(rec, tbl, result) ==
    [op |-> "insertRecord", state |-> "resolved", record |-> rec, before |-> tbl,
     id |-> result.id, changes |-> result.changes]

\* the record literal built from the row the loop is at
record == Normalize(results[idx])

\* the loop goes on to its next row, or to the query after the loop
NextRow == IF idx < Len(results) THEN "check" ELSE "stats"

\* .on('end'): the rows of one of `files` have been read and the loop starts
StartBatchOf(files) ==
    /\ pc = "idle"
    /\ \E rows \in files :
        /\ seq + Len(rows) <= MaxSeq
        /\ results' = rows
        /\ pc' = IF rows = <<>> THEN "stats" ELSE "check"
    /\ idx' = 1
    /\ newRecords' = 0
    /\ duplicates' = 0
    /\ errors' = 0
    /\ startLen' = Len(store)
    /\ hist' = <<>>
    /\ reply' = NoReply
    /\ UNCHANGED <<store, seq, clock>>
    /\ UNCHANGED otherVars

StartBatch == StartBatchOf(CsvFiles)

\* a catch that gives the batch up at the first row error
CatchRowErrorAborts ==
    /\ errors' = errors + 1
    /\ hist' = Append(hist, "error")
    /\ pc' = "stats"
    /\ idx' = idx + 1
    /\ UNCHANGED <<newRecords, duplicates>>

\* catch (rowError): errors++, and the loop continues
CatchRowError ==
    /\ errors' = errors + 1
    /\ hist' = Append(hist, "error")
    /\ pc' = NextRow
    /\ idx' = idx + 1
    /\ UNCHANGED <<newRecords, duplicates>>

\* await db.recordExists(...) rejects
CheckFails ==
    /\ pc = "check"
    /\ CatchRowError
    /\ reply' = Rejected("recordExists")
    /\ UNCHANGED <<store, seq, clock, results, startLen>>
    /\ UNCHANGED otherVars

\* await db.recordExists(...) resolves: a duplicate is counted, another row
\* goes on to the insert
CheckRow ==
    /\ pc = "check"
    /\ IF recordExists(store, record.firstBuyTime, record.lastSellTime, record.item)
       THEN /\ duplicates' = duplicates + 1
            /\ hist' = Append(hist, "duplicate")
            /\ pc' = NextRow
            /\ idx' = idx + 1
       ELSE /\ pc' = "insert"
            /\ UNCHANGED <<duplicates, hist, idx>>
    /\ reply' = [op |-> "recordExists", state |-> "resolved",
                 exists |-> recordExists(store, record.firstBuyTime,
                                         record.lastSellTime, record.item)]
    /\ UNCHANGED <<store, seq, clock, results, newRecords, errors, startLen>>
    /\ UNCHANGED otherVars

\* await db.insertRecord(record) rejects
InsertFails ==
    /\ pc = "insert"
    /\ CatchRowError
    /\ reply' = Rejected("insertRecord")
    /\ UNCHANGED <<store, seq, clock, results, startLen>>
    /\ UNCHANGED otherVars

\* an insert step that also counts in errors a row that had a numeric cell
\* parseInt could not parse
InsertRowCountsParseFailure ==
    /\ pc = "insert"
    /\ LET result == insertRecord(store, seq, record, clock)
       IN  /\ store' = result.tbl
           /\ seq' = result.seq
           /\ IF result.changes > 0
              THEN /\ newRecords' = newRecords + 1
                   /\ hist' = Append(hist, "new")
              ELSE /\ UNCHANGED newRecords
                   /\ hist' = Append(hist, "none")
    /\ errors' = IF Unparsable(results[idx]) # {} THEN errors + 1 ELSE errors
    /\ pc' = NextRow
    /\ idx' = idx + 1
    /\ reply' = Inserted(record, store, insertRecord(store, seq, record, clock))
    /\ UNCHANGED <<clock, results, duplicates, startLen>>
    /\ UNCHANGED otherVars

\* await db.insertRecord(record) resolves: if (result.changes > 0) newRecords++
InsertRow ==
    /\ pc = "insert"
    /\ LET result == insertRecord(store, seq, record, clock)
       IN  /\ store' = result.tbl
           /\ seq' = result.seq
           /\ IF result.changes > 0
              THEN /\ newRecords' = newRecords + 1
                   /\ hist' = Append(hist, "new")
              ELSE /\ UNCHANGED newRecords
                   /\ hist' = Append(hist, "none")
    /\ pc' = NextRow
    /\ idx' = idx + 1
    /\ reply' = Inserted(record, store, insertRecord(store, seq, record, clock))
    /\ UNCHANGED <<clock, results, duplicates, errors, startLen>>
    /\ UNCHANGED otherVars

\* the handler has returned: its locals are gone
Return ==
    /\ pc' = "idle"
    /\ results' = <<>>
    /\ idx' = 1
    /\ newRecords' = 0
    /\ duplicates' = 0
    /\ errors' = 0
    /\ startLen' = 0
    /\ hist' = <<>>

\* await db.getDashboardStats() resolves: the promise resolves with the counters
FinishBatch ==
    /\ pc = "stats"
    /\ reply' = [op         |-> "processCsvFile",
                 state      |-> "resolved",
                 newRecords |-> newRecords,
                 duplicates |-> duplicates,
                 errors     |-> errors,
                 totalInDb  |-> getDashboardStats(store).totalRecords]
    /\ Return
    /\ UNCHANGED <<store, seq, clock>>
    /\ UNCHANGED otherVars

\* await db.getDashboardStats() rejects: the outer catch rejects the promise
StatsFails ==
    /\ pc = "stats"
    /\ reply' = Rejected("processCsvFile")
    /\ Return
    /\ UNCHANGED <<store, seq, clock>>
    /\ UNCHANGED otherVars

\* db.insertRecord called on its own, outside an import
CallInsertRecord ==
    /\ pc = "idle"
    /\ seq < MaxSeq
    /\ \E row \in CsvRows :
        LET rec == Normalize(row)
            result == insertRecord(store, seq, rec, clock)
        IN  /\ store' = result.tbl
            /\ seq' = result.seq
            /\ reply' = Inserted(rec, store, result)
    /\ UNCHANGED <<clock, pc, results, idx, newRecords, duplicates, errors,
                   startLen, hist>>
    /\ UNCHANGED otherVars

\* time passes
Tick ==
    /\ clock < MaxClock
    /\ clock' = clock + 1
    /\ reply' = NoReply
    /\ UNCHANGED <<store, seq, pc, results, idx, newRecords, duplicates, errors,
                   startLen, hist>>
    /\ UNCHANGED otherVars

\* no second upload
NoUpload ==
    [pc |-> "idle", results |-> <<>>, idx |-> 1, newRecords |-> 0,
     duplicates |-> 0, errors |-> 0, hist |-> <<>>]

Init ==
    /\ store = <<>>
    /\ seq = 0
    /\ clock = 0
    /\ pc = "idle"
    /\ results = <<>>
    /\ idx = 1
    /\ newRecords = 0
    /\ duplicates = 0
    /\ errors = 0
    /\ startLen = 0
    /\ hist = <<>>
    /\ reply = NoReply
    /\ dash = NoCall
    /\ rival = NoUpload

\* uploads, one after the other
Next ==
    \/ StartBatch
    \/ CheckFails
    \/ CheckRow
    \/ InsertFails
    \/ InsertRow
    \/ FinishBatch
    \/ StatsFails
    \/ Tick

Spec == Init /\ [][Next]_vars

\* uploads, and calls of insertRecord between them
NextStore ==
    \/ Next
    \/ CallInsertRecord

SpecStore == Init /\ [][NextStore]_vars

\* uploads of files that have cells which are not numbers
NextNumbers ==
    \/ StartBatchOf(NumberFiles)
    \/ CheckFails
    \/ CheckRow
    \/ InsertFails
    \/ InsertRow
    \/ FinishBatch
    \/ StatsFails

SpecNumbers == Init /\ [][NextNumbers]_vars

----------------------------------------------------------------------------
(* The aggregations, applied to stores that imports have filled *)

\* what the loop of processCsvFile does to the store with one row at time `at`
ImportRow(db, row, at) ==
    LET rec == Normalize(row)
    IN  IF recordExists(db.tbl, rec.firstBuyTime, rec.lastSellTime, rec.item)
        THEN db
        ELSE LET result == insertRecord(db.tbl, db.seq, rec, at)
             IN  [tbl |-> result.tbl, seq |-> result.seq]

\* the store after the rows of imp, each a [row, at], were imported in order
RECURSIVE Imported(_)
Imported(imp) ==
    IF imp = <<>> THEN [tbl |-> <<>>, seq |-> 0]
    ELSE LET last == imp[Len(imp)]
         IN  ImportRow(Imported(SubSeq(imp, 1, Len(imp) - 1)), last.row, last.at)

\* imports of at most n rows of pool, at times that do not go back
Imports(pool, n) ==
    {imp \in SeqsUpTo([row : pool, at : 0 .. MaxClock], n) :
        \A k \in 1 .. Len(imp) - 1 : imp[k].at <= imp[k + 1].at}

Idle ==
    /\ pc = "idle"
    /\ results = <<>>
    /\ idx = 1
    /\ newRecords = 0
    /\ duplicates = 0
    /\ errors = 0
    /\ startLen = 0
    /\ hist = <<>>
    /\ reply = NoReply
    /\ dash = NoCall
    /\ rival = NoUpload

InitFrom(imports) ==
    /\ \E imp \in imports :
        LET db == Imported(imp)
        IN  /\ store = db.tbl
            /\ seq = db.seq
            /\ clock = IF imp = <<>> THEN 0 ELSE imp[Len(imp)].at
    /\ Idle

\* db.getDashboardStats()
CallDashboardStats ==
    /\ \E err \in BOOLEAN :
        reply' = IF err THEN Rejected("getDashboardStats")
                 ELSE [op |-> "getDashboardStats", state |-> "resolved",
                       stats |-> getDashboardStats(store)]
    /\ UNCHANGED <<store, seq, clock, batchVars>>
    /\ UNCHANGED otherVars

\* db.getDailyReturns()
CallDailyReturns ==
    /\ \E err \in BOOLEAN :
        reply' = IF err THEN Rejected("getDailyReturns")
                 ELSE [op |-> "getDailyReturns", state |-> "resolved",
                       rows |-> getDailyReturns(store)]
    /\ UNCHANGED <<store, seq, clock, batchVars>>
    /\ UNCHANGED otherVars

\* db.getTimelineData()
CallTimelineData ==
    /\ LET dailyData == getDailyReturns(store)
       IN  \/ reply' = Rejected("getTimelineData")
           \/ \E random \in [Dates(store) -> 1 .. RandomItems] :
                reply' = [op |-> "getTimelineData", state |-> "resolved",
                          rows |-> getTimelineData(dailyData, random)]
    /\ UNCHANGED <<store, seq, clock, batchVars>>
    /\ UNCHANGED otherVars

\* rows of several statuses, spellings, items and signs of profit
RowLower ==
    ("first_buy_time" :> T2) @@ ("last_sell_time" :> T2) @@ ("account" :> Main) @@
    ("item" :> RuneScimitar) @@ ("status" :> <<"f", "i", "n", "i", "s", "h", "e", "d">>) @@
    ("bought" :> <<"2">>) @@ ("sold" :> <<"2">>) @@ ("avg_buy_price" :> <<"1", "0">>) @@
    ("avg_sell_price" :> <<"1", "3">>) @@ ("tax" :> <<"1">>) @@ ("profit" :> <<"7">>) @@
    ("profit_ea" :> <<"2">>)

RowSellingLower ==
    ("Status" :> <<"S", "e", "l", "l", "i", "n", "g">>) @@ ("Profit" :> <<"4">>) @@
    ("Item" :> RuneScimitar) @@ RowSelling

RowLoss ==
    ("Last sell time" :> T1) @@ ("Item" :> Lobster) @@ ("Profit" :> <<"-", "8">>) @@
    RowFinished

AggRows == {RowFinished, RowLower, RowSelling, RowSellingLower, RowLoss}

InitAgg == InitFrom(Imports(AggRows, MaxAggRows))

NextAgg ==
    \/ CallDashboardStats
    \/ CallDailyReturns

SpecAgg == InitAgg /\ [][NextAgg]_vars

\* flips that gain, and that lose the whole starting net worth and more
RowGain ==
    ("Profit" :> <<"9", "9", "0", "0", "0", "0", "0">>) @@ RowFinished

RowRuin ==
    ("First buy time" :> T2) @@ ("Item" :> Lobster) @@
    ("Profit" :> <<"-", "1", "9", "8", "0", "0", "0", "0", "0", "0">>) @@ RowFinished

RowDebt ==
    ("Last sell time" :> T1) @@
    ("Profit" :> <<"-", "2", "0", "7", "9", "0", "0", "0", "0", "0">>) @@ RowFinished

TimelineRows == {RowGain, RowRuin, RowDebt, RowSelling}

InitTimeline == InitFrom(Imports(TimelineRows, MaxTimelineRows))

NextTimeline == CallTimelineData

SpecTimeline == InitTimeline /\ [][NextTimeline]_vars

\* many flips in one upload: the selling rows may repeat, the finished one comes
\* once, first or last
RowSellingGain ==
    ("Profit" :> <<"3">>) @@ RowSelling

InsertAt(q, p, x) == IF p = 0 THEN <<x>> \o q ELSE Append(q, x)

TopImports ==
    LET selling == SeqsUpTo([row : {RowSelling, RowSellingGain}, at : {0}], MaxTopRows)
        finished == [row |-> RowFinished, at |-> 0]
    IN  selling \cup {InsertAt(q, p, finished) :
                        q \in {t \in selling : Len(t) < MaxTopRows}, p \in {0, 1}}

InitTop == InitFrom(TopImports)

NextTop == CallDashboardStats

SpecTop == InitTop /\ [][NextTop]_vars

\* db.getDashboardStats() is called: the promise is made and the queries sent
StartDashboardStats ==
    /\ dash.pending = {}
    /\ dash' = NewCall
    /\ reply' = NoReply
    /\ UNCHANGED <<store, seq, clock, batchVars, rival>>

\* the callback of one of the queries that are under way arrives, with or
\* without an error
QueryCallback ==
    /\ \E key \in dash.pending : \E err \in BOOLEAN :
        dash' = Callback(dash, key, err, store)
    /\ reply' = IF dash'.promise = "resolved" /\ dash.promise = "pending"
                THEN [op |-> "getDashboardStats", state |-> "resolved",
                      stats |-> dash'.value]
                ELSE IF dash'.promise = "rejected" /\ dash.promise = "pending"
                     THEN Rejected("getDashboardStats")
                     ELSE NoReply
    /\ UNCHANGED <<store, seq, clock, batchVars, rival>>

InitJoin == InitFrom(Imports(AggRows, MaxJoinRows))

NextJoin ==
    \/ StartDashboardStats
    \/ QueryCallback

SpecJoin == InitJoin /\ [][NextJoin]_vars

----------------------------------------------------------------------------
(* Properties of the import *)

\* the natural key of a stored row, and of a record as it is bound
Key(r) == <<r.first_buy_time, r.last_sell_time, r.item>>
KeyOf(rec) == <<Bind(rec.firstBuyTime), Bind(rec.lastSellTime), Bind(rec.item)>>

Stored(tbl, key) == \E k \in DOMAIN tbl : Key(tbl[k]) = key

\* the columns of a stored row that come from the record
Fields(r) == <<r.first_buy_time, r.last_sell_time, r.account, r.item, r.status,
               r.bought, r.sold, r.avg_buy_price, r.avg_sell_price, r.tax,
               r.profit, r.profit_ea>>

Count(s, x) == Cardinality({k \in DOMAIN s : s[k] = x})

\* C1: after any sequence of imports by a single writer no two stored records
\* share the triple (first_buy_time, last_sell_time, item), an empty or absent
\* buy or sell time included.
C1_NoTwoRecordsShareKey ==
    \A i, j \in DOMAIN store : i # j => Key(store[i]) # Key(store[j])

\* C2: insertRecord called with a record whose triple is already stored
\* resolves with changes = 0 and leaves the store as it was.
C2_InsertIdempotentOnKey ==
    (reply.op = "insertRecord" /\ reply.state = "resolved"
        /\ Stored(reply.before, KeyOf(reply.record)))
    => (reply.changes = 0 /\ store = reply.before)

\* C3: in a batch without store errors, of the rows that carry one natural key
\* which was not stored when the batch started, the first is counted as new,
\* every later one as a duplicate, errors is 0 and the one stored record of
\* that key has the first row's values.
C3_FirstRowOfKeyWins ==
    (pc = "stats" /\ Count(hist, "error") = 0) =>
        \A i \in DOMAIN results :
            LET key == KeyOf(Normalize(results[i]))
                same == {j \in DOMAIN results : KeyOf(Normalize(results[j])) = key}
                first == CHOOSE j \in same : \A k \in same : j <= k
                kept == {k \in DOMAIN store : Key(store[k]) = key}
            IN  (Cardinality(same) >= 2 /\ ~Stored(SubSeq(store, 1, startLen), key)) =>
                    /\ hist[i] = IF i = first THEN "new" ELSE "duplicate"
                    /\ errors = 0
                    /\ Cardinality(kept) = 1
                    /\ \A k \in kept :
                        Fields(store[k]) = Fields(ParamsRow(Normalize(results[first]), 0, 0))

\* the step raised a store error inside the loop's try block
RowErrorStep ==
    /\ pc \in {"check", "insert"}
    /\ reply'.op \in {"recordExists", "insertRecord"}
    /\ reply'.state = "rejected"

\* C4: a store error while a row is processed adds one to errors and nothing
\* to newRecords and duplicates, leaves the stored rows alone, and the loop
\* goes on with the next row; the batch resolves with its counters, errors
\* being the number of rows that failed and every row having had its turn.
C4_RowErrorIsIsolated ==
    [][ /\ RowErrorStep =>
            /\ errors' = errors + 1
            /\ newRecords' = newRecords
            /\ duplicates' = duplicates
            /\ store' = store
            /\ results' = results
            /\ idx' = idx + 1
            /\ pc' = IF idx < Len(results) THEN "check" ELSE "stats"
        /\ (pc = "stats" /\ reply'.op = "processCsvFile" /\ reply'.state = "resolved") =>
            /\ Len(hist) = Len(results)
            /\ reply'.errors = Count(hist, "error")
            /\ reply'.newRecords = Count(hist, "new")
            /\ reply'.duplicates = Count(hist, "duplicate")
            /\ reply'.newRecords = Len(store) - startLen
      ]_vars

\* a batch whose second row failed, between two rows that were stored
C4_Witness ==
    /\ pc = "stats"
    /\ hist = <<"new", "error", "new">>
    /\ Len(store) = startLen + 2

\* account, item and status of the row are present
Described(row) == NotNullOk(ParamsRow(Normalize(row), 0, 0))

\* the loop is at a row and the store call of this step resolved
RowStep(at, op) ==
    /\ pc = at
    /\ reply'.op = op
    /\ reply'.state = "resolved"

\* what C11 says of a step of the loop, of every row or of the rows whose
\* account, item and status are present
BadNumberStep(described) ==
    pc \in {"check", "insert"} =>
        \A f \in Missing(results[idx]) \cup Unparsable(results[idx]) :
            /\ RowStep("check", "recordExists") =>
                /\ record[f.field] = 0
                /\ errors' = errors
                /\ results' = results
                /\ IF Stored(store, KeyOf(record))
                   THEN pc' \in {"insert", NextRow}
                   ELSE pc' = "insert" /\ idx' = idx
            /\ (RowStep("insert", "insertRecord") /\ ~Stored(store, KeyOf(record))
                    /\ (described => Described(results[idx]))) =>
                /\ record[f.field] = 0
                /\ errors' = errors
                /\ newRecords' = newRecords + 1
                /\ duplicates' = duplicates
                /\ Len(store') = Len(store) + 1
                /\ SubSeq(store', 1, Len(store)) = store
                /\ Fields(store'[Len(store')]) = Fields(ParamsRow(record, 0, 0))
                /\ store'[Len(store')][f.column] = 0

C12_ParseFailureCounted ==
    [][ (pc \in {"check", "insert"} /\ idx' = idx + 1) =>
            \A f \in Unparsable(results[idx]) :
                /\ record[f.field] = 0
                /\ errors' = errors + 1
      ]_vars

\* what C12 as amended says of a step of the loop
ParseFailureStep ==
    pc \in {"check", "insert"} =>
        \A f \in Unparsable(results[idx]) :
            /\ record[f.field] = 0
            /\ errors' = IF RowErrorStep THEN errors + 1 ELSE errors

\* C12 as amended: when a row's numeric field is present and cannot be parsed,
\* the field is 0 in the record and the parse failure is not counted: a step on
\* that row adds one to errors if its store call rejected and nothing
\* otherwise.
C12_ParseFailureNotCounted == [][ParseFailureStep]_vars

\* a batch whose first row met a store error and whose second, with profit
\* "abc", was stored: errors counts the first row alone
C12_Witness ==
    /\ pc = "stats"
    /\ results[Len(results)] = RowUnparsable
    /\ Unparsable(RowUnparsable) # {}
    /\ hist = <<"error", "new">>
    /\ errors = 1
    /\ newRecords = 1
    /\ store[Len(store)].profit = 0

\* C13: when the loop of a batch is over, every row has been counted in
\* exactly one of newRecords, duplicates and errors, so that the three add up
\* to the number of rows; a row whose account, item or status is empty or
\* absent has been stored and counted as new, or counted in errors.
C13_EveryRowCounted ==
    pc = "stats" =>
        /\ Len(hist) = Len(results)
        /\ newRecords + duplicates + errors = Len(results)
        /\ \A i \in DOMAIN results :
            /\ hist[i] \in {"new", "duplicate", "error"}
            /\ ~Described(results[i]) => hist[i] \in {"new", "error"}

----------------------------------------------------------------------------
(* Properties of the aggregations *)

LowerCase == <<"a", "b", "c", "d", "e", "f", "g", "h", "i", "j", "k", "l", "m",
               "n", "o", "p", "q", "r", "s", "t", "u", "v", "w", "x", "y", "z">>
UpperCase == <<"A", "B", "C", "D", "E", "F", "G", "H", "I", "J", "K", "L", "M",
               "N", "O", "P", "Q", "R", "S", "T", "U", "V", "W", "X", "Y", "Z">>

UpperChar(c) ==
    IF \E k \in DOMAIN LowerCase : LowerCase[k] = c
    THEN UpperCase[CHOOSE k \in DOMAIN LowerCase : LowerCase[k] = c]
    ELSE c

\* text with its letters in upper case
Upper(text) == [k \in DOMAIN text |-> UpperChar(text[k])]

\* the rows whose status is `text` in any letter case
AnyCase(tbl, text) ==
    SelectWhere(tbl, {r \in Range(tbl) : r.status # NULL /\ Upper(r.status) = text})

Resolved(op) == reply.op = op /\ reply.state = "resolved"

\* C5: the dashboard's total_profit is the sum of profit over the records whose
\* status is FINISHED in any letter case, completed_flips is their number,
\* total_records the number of all records, and an empty store gives zeros and
\* empty top lists.
C5_DashboardAnyCase ==
    Resolved("getDashboardStats") =>
        /\ reply.stats.totalProfit = SumProfit(AnyCase(store, FINISHED))
        /\ reply.stats.completedFlips = Len(AnyCase(store, FINISHED))
        /\ reply.stats.totalRecords = Len(store)
        /\ store = <<>> =>
            /\ reply.stats.totalProfit = 0
            /\ reply.stats.completedFlips = 0
            /\ reply.stats.totalRecords = 0
            /\ reply.stats.topFlips = <<>>
            /\ reply.stats.topItems = <<>>

\* C6: the daily rollup has one bucket per calendar date of import, newest
\* first, and a bucket counts that date's records, its FINISHED and its SELLING
\* records in any letter case, and sums profit over its FINISHED records.
C6_DailyAnyCase ==
    Resolved("getDailyReturns") =>
        LET rows == reply.rows
        IN  /\ {rows[k].date : k \in DOMAIN rows} = Dates(store)
            /\ Len(rows) = Cardinality(Dates(store))
            /\ \A k \in 1 .. Len(rows) - 1 : rows[k].date > rows[k + 1].date
            /\ \A k \in DOMAIN rows :
                LET day == OnDate(store, rows[k].date)
                IN  /\ rows[k].totalTrades = Len(day)
                    /\ rows[k].finishedTrades = Len(AnyCase(day, FINISHED))
                    /\ rows[k].activeTrades = Len(AnyCase(day, SELLING))
                    /\ rows[k].dailyProfit = SumProfit(AnyCase(day, FINISHED))

Min(a, b) == IF a <= b THEN a ELSE b

\* C7: top_flips has min(10, number of records) records, in order of profit
\* not increasing; no record left out has a higher profit than one in the
\* list; records of every status can be in it.
C7_TopFlips ==
    Resolved("getDashboardStats") =>
        LET top == reply.stats.topFlips
            ids == {top[k].id : k \in DOMAIN top}
        IN  /\ Len(top) = Min(TopLimit, Len(store))
            /\ Cardinality(ids) = Len(top)
            /\ \A k \in DOMAIN top : top[k] \in Range(store)
            /\ \A k \in 1 .. Len(top) - 1 : top[k].profit >= top[k + 1].profit
            /\ \A j \in DOMAIN store : \A k \in DOMAIN top :
                store[j].id \notin ids => store[j].profit <= top[k].profit

\* more than ten records, the finished one imported last and at the head of a
\* list that holds selling records too and leaves a record out
C7_Witness ==
    /\ Resolved("getDashboardStats")
    /\ Len(store) > TopLimit
    /\ store[Len(store)].status = FINISHED
    /\ Len(reply.stats.topFlips) = TopLimit
    /\ reply.stats.topFlips[1] = store[Len(store)]
    /\ reply.stats.topFlips[2].status = SELLING
    /\ \E j \in DOMAIN store :
        /\ store[j] \notin Range(reply.stats.topFlips)
        /\ store[j].profit < reply.stats.topFlips[TopLimit].profit

\* the sum of dailyProfit over the points dated d or earlier
RECURSIVE ProfitUpTo(_, _)
ProfitUpTo(rows, d) ==
    IF rows = <<>> THEN 0
    ELSE (IF Head(rows).date <= d THEN Head(rows).dailyProfit ELSE 0)
         + ProfitUpTo(Tail(rows), d)

\* the sum of dailyProfit over all points
RECURSIVE AllProfit(_)
AllProfit(rows) ==
    IF rows = <<>> THEN 0 ELSE Head(rows).dailyProfit + AllProfit(Tail(rows))

\* C8: each timeline point's net worth is the starting net worth plus the
\* daily profit of its day and of all earlier days, so it does not fall on a
\* day of profit >= 0 and the latest point has the starting net worth plus all
\* daily profit; the points come newest first.
C8_RunningNetWorth ==
    Resolved("getTimelineData") =>
        LET rows == reply.rows
        IN  /\ \A k \in 1 .. Len(rows) - 1 : rows[k].date > rows[k + 1].date
            /\ \A k \in DOMAIN rows :
                rows[k].netWorth = startingNetWorth + ProfitUpTo(rows, rows[k].date)
            /\ \A k \in DOMAIN rows :
                rows[k].dailyProfit >= 0 =>
                    rows[k].netWorth >= (IF k < Len(rows) THEN rows[k + 1].netWorth
                                         ELSE startingNetWorth)
            /\ \A k \in DOMAIN rows :
                (\A j \in DOMAIN rows : rows[j].date <= rows[k].date) =>
                    rows[k].netWorth = startingNetWorth + AllProfit(rows)

\* two days, a loss on the first and a gain on the second
C8_Witness ==
    /\ Resolved("getTimelineData")
    /\ Len(reply.rows) = 2
    /\ reply.rows[2].dailyProfit < 0
    /\ reply.rows[1].dailyProfit > 0
    /\ reply.rows[1].netWorth = startingNetWorth + reply.rows[1].dailyProfit
                                + reply.rows[2].dailyProfit

\* the net worth before the profit of point k was added
Previous(rows, k) == rows[k].netWorth - rows[k].dailyProfit

\* the buckets of the example: profits 10 then -5
ExampleDays ==
    <<[date |-> 0, totalTrades |-> 1, dailyProfit |-> 10, finishedTrades |-> 1,
       activeTrades |-> 0, topItem |-> Lobster, topItemProfit |-> 10],
      [date |-> 1, totalTrades |-> 1, dailyProfit |-> 0 - 5, finishedTrades |-> 1,
       activeTrades |-> 0, topItem |-> Lobster, topItemProfit |-> 0 - 5]>>

Example == ForEachDay(ExampleDays, 100, 100, [d \in {0, 1} |-> 1])

\* C9 as claimed: growth is (daily_profit * 100) / previous net worth and 0
\* only where the previous net worth is 0; ROI is (daily_profit * 100) /
\* (finished_trades * unit investment) and 0 where finished_trades is 0.
C9_GrowthUnlessZero ==
    Resolved("getTimelineData") =>
        \A k \in DOMAIN reply.rows :
            LET day == reply.rows[k]
                previous == Previous(reply.rows, k)
            IN  /\ day.growth = IF previous = 0 THEN Zero
                                ELSE Percent(day.dailyProfit, previous)
                /\ day.roi = IF day.finishedTrades = 0 THEN Zero
                             ELSE Percent(day.dailyProfit, day.finishedTrades * UnitInvestment)

\* C9 as amended: growth is (daily_profit * 100) / previous net worth where the
\* previous net worth is above 0, and 0 where it is 0 or negative; ROI as
\* claimed; from 100, profits 10 then -5 give 110 and 105 and (-5 * 100) / 110.
C9_GrowthWherePositive ==
    /\ Resolved("getTimelineData") =>
        \A k \in DOMAIN reply.rows :
            LET day == reply.rows[k]
                previous == Previous(reply.rows, k)
            IN  /\ day.growth = IF previous > 0 THEN Percent(day.dailyProfit, previous)
                                ELSE Zero
                /\ day.roi = IF day.finishedTrades = 0 THEN Zero
                             ELSE Percent(day.dailyProfit, day.finishedTrades * UnitInvestment)
    /\ Example[1].netWorth = 110
    /\ Example[2].netWorth = 105
    /\ Example[2].growth = <<0 - 50, 11>>

\* a day of profit that follows a negative net worth: its growth is 0
C9_Witness ==
    /\ Resolved("getTimelineData")
    /\ Len(reply.rows) = 2
    /\ Previous(reply.rows, 1) < 0
    /\ reply.rows[1].dailyProfit > 0
    /\ reply.rows[1].growth = Zero
    /\ reply.rows[1].roi # Zero
    /\ reply.rows[2].growth # Zero

\* the number of distinct items among the records of date d
DistinctItems(tbl, d) == Cardinality({r.item : r \in Range(OnDate(tbl, d))})

\* C10: a timeline point's item count is the number of distinct items of its
\* day, and a timeline computed again over the same store has the same points.
C10_Deterministic ==
    [][ (reply'.op = "getTimelineData" /\ reply'.state = "resolved") =>
            /\ \A k \in DOMAIN reply'.rows :
                reply'.rows[k].items = DistinctItems(store', reply'.rows[k].date)
            /\ (Resolved("getTimelineData") /\ store' = store) =>
                reply'.rows = reply.rows
      ]_vars
----------------------------------------------------------------------------
(* Two uploads whose 'end' handlers run at the same time: each await of a   *)
(* handler lets the other handler take its steps                           *)

\* the record literal built from the row the second handler's loop is at
rivalRecord == Normalize(rival.results[rival.idx])

rivalNextRow == IF rival.idx < Len(rival.results) THEN "check" ELSE "stats"

\* catch (rowError) in the second handler
RivalCatchRowError ==
    rival' = [rival EXCEPT !.errors = @ + 1,
                           !.hist = Append(@, "error"),
                           !.pc = rivalNextRow,
                           !.idx = @ + 1]

\* await db.recordExists(...) rejects in the second handler
RivalCheckFails ==
    /\ rival.pc = "check"
    /\ RivalCatchRowError
    /\ reply' = Rejected("recordExists")
    /\ UNCHANGED <<store, seq, clock, batchVars, dash>>

\* await db.recordExists(...) resolves in the second handler
RivalCheckRow ==
    /\ rival.pc = "check"
    /\ LET exists == recordExists(store, rivalRecord.firstBuyTime,
                                  rivalRecord.lastSellTime, rivalRecord.item)
       IN  /\ rival' = IF exists
                       THEN [rival EXCEPT !.duplicates = @ + 1,
                                          !.hist = Append(@, "duplicate"),
                                          !.pc = rivalNextRow,
                                          !.idx = @ + 1]
                       ELSE [rival EXCEPT !.pc = "insert"]
           /\ reply' = [op |-> "recordExists", state |-> "resolved", exists |-> exists]
    /\ UNCHANGED <<store, seq, clock, batchVars, dash>>

\* await db.insertRecord(record) rejects in the second handler
RivalInsertFails ==
    /\ rival.pc = "insert"
    /\ RivalCatchRowError
    /\ reply' = Rejected("insertRecord")
    /\ UNCHANGED <<store, seq, clock, batchVars, dash>>

\* await db.insertRecord(record) resolves in the second handler
RivalInsertRow ==
    /\ rival.pc = "insert"
    /\ LET result == insertRecord(store, seq, rivalRecord, clock)
       IN  /\ store' = result.tbl
           /\ seq' = result.seq
           /\ rival' = [rival EXCEPT
                            !.newRecords = IF result.changes > 0 THEN @ + 1 ELSE @,
                            !.hist = Append(@, IF result.changes > 0 THEN "new" ELSE "none"),
                            !.pc = rivalNextRow,
                            !.idx = @ + 1]
           /\ reply' = Inserted(rivalRecord, store, result)
    /\ UNCHANGED <<clock, batchVars, dash>>

\* await db.getDashboardStats() resolves or rejects in the second handler: its
\* promise is settled and the handler has returned
RivalFinish ==
    /\ rival.pc = "stats"
    /\ \E err \in BOOLEAN :
        reply' = IF err THEN Rejected("processCsvFile")
                 ELSE [op         |-> "processCsvFile",
                       state      |-> "resolved",
                       newRecords |-> rival.newRecords,
                       duplicates |-> rival.duplicates,
                       errors     |-> rival.errors,
                       totalInDb  |-> getDashboardStats(store).totalRecords]
    /\ rival' = NoUpload
    /\ UNCHANGED <<store, seq, clock, batchVars, dash>>

\* flips of one key with different figures, and a flip that is still selling
RaceRows == {RowFinished, RowFinishedAgain, RowSelling}

\* files of at least one row; the two uploads have MaxRaceRows rows at most
\* between them
RaceFiles == SeqsUpTo(RaceRows, MaxRaceRows - 1) \ {<<>>}

\* two files have been read and the loops of both handlers are to start, on
\* an empty store
InitRace ==
    /\ store = <<>>
    /\ seq = 0
    /\ clock = 0
    /\ pc = "check"
    /\ results \in RaceFiles
    /\ idx = 1
    /\ newRecords = 0
    /\ duplicates = 0
    /\ errors = 0
    /\ startLen = 0
    /\ hist = <<>>
    /\ reply = NoReply
    /\ dash = NoCall
    /\ \E rows \in RaceFiles :
        /\ Len(results) + Len(rows) <= MaxRaceRows
        /\ rival = [NoUpload EXCEPT !.pc = "check", !.results = rows]

NextRace ==
    \/ CheckFails
    \/ CheckRow
    \/ InsertFails
    \/ InsertRow
    \/ FinishBatch
    \/ StatsFails
    \/ RivalCheckFails
    \/ RivalCheckRow
    \/ RivalInsertFails
    \/ RivalInsertRow
    \/ RivalFinish

SpecRace == InitRace /\ [][NextRace]_vars

----------------------------------------------------------------------------
(* Properties of the join of getDashboardStats and of two uploads at once *)

\* C14: whatever the order of the five callbacks, the promise of
\* getDashboardStats is resolved only when all five queries have succeeded,
\* with the five fields of the dashboard; once a query has failed it is
\* rejected and resolve is never called; resolve is called at most once, and
\* when all five have succeeded it has been called.
C14_AllOrNothing ==
    /\ dash.promise = "resolved" =>
        /\ dash.pending = {}
        /\ dash.failed = {}
        /\ dash.completedQueries = totalQueries
        /\ DOMAIN dash.value = Queries
        /\ \A key \in Queries : dash.value[key] = getDashboardStats(store)[key]
    /\ dash.failed # {} =>
        /\ dash.promise = "rejected"
        /\ dash.resolveCalls = 0
        /\ dash.rejectCalls = Cardinality(dash.failed)
    /\ dash.resolveCalls <= 1
    /\ dash.resolveCalls = 1 => dash.promise = "resolved"
    /\ (dash.promise = "pending" /\ dash.failed = {}) => dash.pending # {}
    /\ dash.promise # "none" => DOMAIN dash.stats = Queries \ (dash.pending \cup dash.failed)

\* the query of totalRecords failed first and the four others succeeded after
\* it, on a store that is not empty: the promise is rejected, not resolved
C14_Witness ==
    /\ store # <<>>
    /\ dash.promise = "rejected"
    /\ dash.pending = {}
    /\ dash.failed = {"totalRecords"}
    /\ dash.completedQueries = 4
    /\ dash.resolveCalls = 0
    /\ DOMAIN dash.stats = Queries \ {"totalRecords"}

\* the rows of a batch that carry `key`, and those of them the loop has dealt
\* with in one of the ways `how`
RowsOf(rows, key) == {i \in DOMAIN rows : KeyOf(Normalize(rows[i])) = key}

Dealt(rows, done, key, how) == {i \in RowsOf(rows, key) : i <= Len(done) /\ done[i] \in how}

\* C15: while two batches run interleaved step by step on a store that was
\* empty, the number of stored records is the sum of their newRecords; when
\* both loops are over, a key without an empty field that both batches carry
\* is stored at most once, exactly one row of the two batches was counted as
\* new for each stored record of it, and it is stored once if either batch
\* counted a row of it as new or as a duplicate.
C15_RaceStoresOnce ==
    (pc # "idle" /\ rival.pc # "idle") =>
        /\ Len(store) = newRecords + rival.newRecords
        /\ (pc = "stats" /\ rival.pc = "stats") =>
            \A i \in DOMAIN results :
                LET key == KeyOf(Normalize(results[i]))
                    kept == {k \in DOMAIN store : Key(store[k]) = key}
                    new == Cardinality(Dealt(results, hist, key, {"new"}))
                           + Cardinality(Dealt(rival.results, rival.hist, key, {"new"}))
                    seen == Dealt(results, hist, key, {"new", "duplicate"})
                            \cup Dealt(rival.results, rival.hist, key, {"new", "duplicate"})
                IN  (NULL \notin Range(key) /\ RowsOf(rival.results, key) # {}) =>
                        /\ Cardinality(kept) <= 1
                        /\ Cardinality(kept) = new
                        /\ seen # {} => Cardinality(kept) = 1

\* both handlers found the key absent, then both inserted: the first insert
\* stored its row and the second was ignored and counted nowhere
C15_Witness ==
    /\ pc = "stats"
    /\ rival.pc = "stats"
    /\ results = <<RowFinished>>
    /\ rival.results = <<RowFinishedAgain>>
    /\ hist = <<"none">>
    /\ rival.hist = <<"new">>
    /\ newRecords = 0
    /\ rival.newRecords = 1
    /\ Len(store) = 1
    /\ store[1].profit = 9

====
